---- MODULE Spec2Model ----
(***************************************************************************)
(* Pairing Method engine (src/assets/js/engine.js): normalization of raw   *)
(* food and wine records, the scoring rules, the aggregation of one pair   *)
(* and the ranking of a list of wines.                                     *)
(*                                                                         *)
(* JavaScript values are tagged records:                                   *)
(*   [t |-> "undefined"], [t |-> "null"], [t |-> "boolean", b |-> ...],    *)
(*   [t |-> "number", n |-> <number>], [t |-> "string", s |-> <chars>],    *)
(*   [t |-> "array", a |-> <values>], [t |-> "object", p |-> <fields>].    *)
(* A number is a quotient [num, den]: den > 0 is the finite value num/den, *)
(* den = 0 is +Infinity (num = 1), -Infinity (num = -1) or NaN (num = 0).  *)
(* A string is a sequence of one-character strings.                        *)
(***************************************************************************)
EXTENDS Integers, Sequences, FiniteSets, TLC

VARIABLES pc, call, ret

vars == <<pc, call, ret>>

\* ------------------------------------------------------------------------
\* JavaScript values and the conversions the engine relies on
\* ------------------------------------------------------------------------

\* const x = v; body: the value v is computed once and named
Bind(v, Body(_)) == CHOOSE r \in {Body(x) : x \in {v}} : TRUE

Undefined == [t |-> "undefined"]
Null == [t |-> "null"]
Bool(b) == [t |-> "boolean", b |-> b]
Str(s) == [t |-> "string", s |-> s]
Arr(a) == [t |-> "array", a |-> a]
Obj(p) == [t |-> "object", p |-> p]

Quot(n, d) == [num |-> n, den |-> d]
Int2Num(i) == Quot(i, 1)
NaN == Quot(0, 0)
PosInf == Quot(1, 0)
NegInf == Quot(-1, 0)
NumV(n, d) == [t |-> "number", n |-> Quot(n, d)]

IsNaN(x) == x.den = 0 /\ x.num = 0

\* x < y on numbers; false when either is NaN
Less(x, y) ==
  IF IsNaN(x) \/ IsNaN(y) THEN FALSE
  ELSE IF x.den = 0 THEN x.num < 0 /\ ~(y.den = 0 /\ y.num < 0)
  ELSE IF y.den = 0 THEN y.num > 0
  ELSE x.num * y.den < y.num * x.den

MathFloor(x) == Bind(x, LAMBDA a : IF a.den = 0 THEN a ELSE Int2Num(a.num \div a.den))

MathMin(x, y) ==
  Bind(<<x, y>>, LAMBDA a :
    IF IsNaN(a[1]) \/ IsNaN(a[2]) THEN NaN ELSE IF Less(a[2], a[1]) THEN a[2] ELSE a[1])

MathMax(x, y) ==
  Bind(<<x, y>>, LAMBDA a :
    IF IsNaN(a[1]) \/ IsNaN(a[2]) THEN NaN ELSE IF Less(a[1], a[2]) THEN a[2] ELSE a[1])

MathAbs(i) == IF i < 0 THEN -i ELSE i

Digits == {"0", "1", "2", "3", "4", "5", "6", "7", "8", "9"}

DigitVal(c) ==
  CASE c = "0" -> 0 [] c = "1" -> 1 [] c = "2" -> 2 [] c = "3" -> 3
    [] c = "4" -> 4 [] c = "5" -> 5 [] c = "6" -> 6 [] c = "7" -> 7
    [] c = "8" -> 8 [] c = "9" -> 9

RECURSIVE DigitsVal(_)
DigitsVal(s) ==
  IF s = <<>> THEN 0
  ELSE 10 * DigitsVal(SubSeq(s, 1, Len(s) - 1)) + DigitVal(s[Len(s)])

RECURSIVE Pow10(_)
Pow10(k) == IF k = 0 THEN 1 ELSE 10 * Pow10(k - 1)

RECURSIVE Trim(_)
Trim(s) ==
  IF s = <<>> THEN s
  ELSE IF Head(s) = " " THEN Trim(Tail(s))
  ELSE IF s[Len(s)] = " " THEN Trim(SubSeq(s, 1, Len(s) - 1))
  ELSE s

\* the value of an unsigned decimal literal u, NaN when u is none
DecimalValue(u, neg) ==
  LET dots == {i \in 1..Len(u) : u[i] = "."}
      dot == IF dots = {} THEN Len(u) + 1 ELSE CHOOSE i \in dots : \A j \in dots : i <= j
  IN  Bind(dot, LAMBDA d :
        IF /\ \A i \in 1..Len(u) : i # d => u[i] \in Digits
           /\ Len(u) > (IF d <= Len(u) THEN 1 ELSE 0)
        THEN Bind(DigitsVal(SubSeq(u, 1, d - 1) \o SubSeq(u, d + 1, Len(u))), LAMBDA mag :
               Quot(IF neg THEN -mag ELSE mag, Pow10(IF d <= Len(u) THEN Len(u) - d ELSE 0)))
        ELSE NaN)

\* Number(<string>): blanks trimmed, "" is 0, an optionally signed decimal
\* literal with an optional fraction is its value, anything else is NaN.
StringToNumber(s) ==
  Bind(Trim(s), LAMBDA b :
    IF b = <<>> THEN Int2Num(0)
    ELSE IF Head(b) \in {"-", "+"} THEN Bind(Tail(b), LAMBDA u : DecimalValue(u, Head(b) = "-"))
    ELSE DecimalValue(b, FALSE))

\* Number(v)
ToNumber(raw) ==
  Bind(raw, LAMBDA v :
  CASE v.t = "undefined" -> NaN
    [] v.t = "null" -> Int2Num(0)
    [] v.t = "boolean" -> Int2Num(IF v.b THEN 1 ELSE 0)
    [] v.t = "number" -> v.n
    [] v.t = "string" -> StringToNumber(v.s)
    [] v.t = "array" ->
         \* the array is joined with "," and the text converted
         IF Len(v.a) = 0 THEN Int2Num(0)
         ELSE IF Len(v.a) > 1 THEN NaN
         ELSE LET e == v.a[1]
              IN CASE e.t \in {"undefined", "null"} -> Int2Num(0)
                   [] e.t = "number" -> e.n
                   [] e.t = "string" -> StringToNumber(e.s)
                   [] OTHER -> NaN
    [] v.t = "object" -> NaN)

\* truthiness
ToBoolean(v) ==
  CASE v.t \in {"undefined", "null"} -> FALSE
    [] v.t = "boolean" -> v.b
    [] v.t = "number" -> ~IsNaN(v.n) /\ v.n.num # 0
    [] v.t = "string" -> v.s # <<>>
    [] OTHER -> TRUE

\* o.k for a value o that is neither null nor undefined
Get(o, k) == IF o.t = "object" /\ k \in DOMAIN o.p THEN o.p[k] ELSE Undefined

\* o.k raises a TypeError exactly for null and undefined
Nullish(o) == o.t \in {"undefined", "null"}

\* ------------------------------------------------------------------------
\* Strings
\* ------------------------------------------------------------------------

LowerOf(c) ==
  CASE c = "A" -> "a" [] c = "B" -> "b" [] c = "E" -> "e" [] c = "F" -> "f"
    [] c = "K" -> "k" [] c = "O" -> "o" [] c = "R" -> "r" [] c = "Y" -> "y"
    [] OTHER -> c

ToLowerCase(s) == [i \in 1..Len(s) |-> LowerOf(s[i])]

\* hay.includes(needle)
Includes(hay, needle) ==
  \E i \in 0..(Len(hay) - Len(needle)) : SubSeq(hay, i + 1, i + Len(needle)) = needle

\* ------------------------------------------------------------------------
\* Normalization
\* ------------------------------------------------------------------------

BASE_SCORE == 50

\* clamp without the lower bound
clamp_noLowerBound(v, min, max) ==
  Bind(ToNumber(v), LAMBDA n :
    IF IsNaN(n) THEN min
    ELSE MathMin(Int2Num(max), MathFloor(n)).num)

\* clamp(v, min, max): an integer of [min, max]
clamp(v, min, max) ==
  Bind(ToNumber(v), LAMBDA n :
    IF IsNaN(n) THEN min
    ELSE MathMax(Int2Num(min), MathMin(Int2Num(max), MathFloor(n))).num)

\* the alcohol and aromatic_intensity expression of normalizeWine
clampOrDefault(v, dflt) ==
  Bind(ToNumber(v), LAMBDA n :
    IF IsNaN(n) THEN dflt
    ELSE MathMax(Int2Num(1), MathMin(Int2Num(5), MathFloor(n))).num)

\* normalizeFood(food), food neither null nor undefined
normalizeFood(food) ==
  [name |-> IF Get(food, "name").t = "string" THEN Get(food, "name").s ELSE <<>>,
   protein_intensity |-> clamp(Get(food, "protein_intensity"), 0, 5),
   fat_level |-> clamp(Get(food, "fat_level"), 0, 5),
   acidity |-> clamp(Get(food, "acidity"), 0, 5),
   sweetness |-> clamp(Get(food, "sweetness"), 0, 5),
   spice_heat |-> clamp(Get(food, "spice_heat"), 0, 5),
   umami |-> clamp(Get(food, "umami"), 0, 5)]

\* normalizeWine(wine), wine neither null nor undefined
normalizeWine(wine) ==
  [name |-> IF Get(wine, "name").t = "string" THEN Get(wine, "name").s ELSE <<>>,
   body |-> clamp(Get(wine, "body"), 0, 5),
   tannin |-> clamp(Get(wine, "tannin"), 0, 5),
   acidity |-> clamp(Get(wine, "acidity"), 0, 5),
   alcohol |-> clampOrDefault(Get(wine, "alcohol"), 3),
   sweetness |-> clamp(Get(wine, "sweetness"), 0, 5),
   aromatic_intensity |-> clampOrDefault(Get(wine, "aromatic_intensity"), 2),
   flavor_profile |-> IF Get(wine, "flavor_profile").t = "array"
                      THEN Get(wine, "flavor_profile").a ELSE <<>>]

\* ------------------------------------------------------------------------
\* Rule helpers: each is [delta, reasoning] (the sweetness rule: [cap, ..])
\* ------------------------------------------------------------------------

MsgAligned == "Wine body aligns with protein intensity."
MsgMisaligned == "Wine body misaligned with dish intensity."
MsgStructure == "Structure balances dish richness."
MsgLacksAcidity == "Wine lacks acidity for rich texture."
MsgSweetness == "Wine sweetness lower than dish sweetness."
MsgAcidGap == "Wine acidity too low for dish brightness."
MsgAlcohol == "High alcohol clashes with spice heat."
MsgTannin == "Tannins amplified by spice."
MsgSoftens == "Slight sweetness softens spice."
MsgUmami == "Acidity supports savory depth."
MsgFlavor == "Flavor bridge between wine and dish."

Outcome(d, r) == [delta |-> d, reasoning |-> r]

applyIntensityHarmony(f, w) ==
  LET intensityDiff == MathAbs(f.protein_intensity - w.body)
  IN  IF intensityDiff <= 1 THEN Outcome(15, <<MsgAligned>>)
      ELSE IF intensityDiff >= 3 THEN Outcome(-15, <<MsgMisaligned>>)
      ELSE Outcome(0, <<>>)

\* the fat rule with its branches in the other order: the penalty first
applyFatBalance_penaltyFirst(f, w) ==
  IF f.fat_level >= 4 /\ w.acidity <= 1
    THEN Outcome(-10, <<MsgLacksAcidity>>)
  ELSE IF f.fat_level >= 3 /\ (w.acidity >= 3 \/ w.tannin >= 3)
    THEN Outcome(10, <<MsgStructure>>)
  ELSE Outcome(0, <<>>)

applyFatBalance(f, w) ==
  IF f.fat_level >= 3 /\ (w.acidity >= 3 \/ w.tannin >= 3)
    THEN Outcome(10, <<MsgStructure>>)
  ELSE IF f.fat_level >= 4 /\ w.acidity <= 1
    THEN Outcome(-10, <<MsgLacksAcidity>>)
  ELSE Outcome(0, <<>>)

\* the sweetness rule with <= for <
applySweetnessRule_orEqual(f, w) ==
  IF w.sweetness <= f.sweetness
    THEN [cap |-> <<40>>, reasoning |-> <<MsgSweetness>>]
  ELSE [cap |-> <<>>, reasoning |-> <<>>]

\* cap is <<40>> when violated, <<>> (null in the source) otherwise
applySweetnessRule(f, w) ==
  IF w.sweetness < f.sweetness
    THEN [cap |-> <<40>>, reasoning |-> <<MsgSweetness>>]
  ELSE [cap |-> <<>>, reasoning |-> <<>>]

\* the acid gap without the tolerance of one
applyAcidGap_noTolerance(f, w) ==
  IF w.acidity < f.acidity THEN Outcome(-20, <<MsgAcidGap>>)
  ELSE Outcome(0, <<>>)

applyAcidGap(f, w) ==
  IF w.acidity + 1 < f.acidity THEN Outcome(-20, <<MsgAcidGap>>)
  ELSE Outcome(0, <<>>)

\* the spice checks as an else-if chain: the first that applies wins
applySpiceLogic_firstOnly(f, w) ==
  IF f.spice_heat >= 3 /\ w.alcohol >= 4 THEN Outcome(-15, <<MsgAlcohol>>)
  ELSE IF f.spice_heat >= 3 /\ w.tannin >= 4 THEN Outcome(-10, <<MsgTannin>>)
  ELSE IF f.spice_heat >= 3 /\ w.sweetness >= 1 THEN Outcome(8, <<MsgSoftens>>)
  ELSE Outcome(0, <<>>)

applySpiceLogic(f, w) ==
  LET s1 == f.spice_heat >= 3 /\ w.alcohol >= 4
      s2 == f.spice_heat >= 3 /\ w.tannin >= 4
      s3 == f.spice_heat >= 3 /\ w.sweetness >= 1
  IN  Outcome((IF s1 THEN -15 ELSE 0) + (IF s2 THEN -10 ELSE 0) + (IF s3 THEN 8 ELSE 0),
              (IF s1 THEN <<MsgAlcohol>> ELSE <<>>)
                \o (IF s2 THEN <<MsgTannin>> ELSE <<>>)
                \o (IF s3 THEN <<MsgSoftens>> ELSE <<>>))

applyUmamiSupport(f, w) ==
  IF f.umami >= 3 /\ w.acidity >= 3 THEN Outcome(5, <<MsgUmami>>)
  ELSE Outcome(0, <<>>)

applyFlavorBridge(f, w) ==
  LET foodName == ToLowerCase(f.name)
      hasMatch ==
        /\ Len(w.flavor_profile) > 0
        /\ \E i \in 1..Len(w.flavor_profile) :
             /\ w.flavor_profile[i].t = "string"
             /\ Includes(foodName, ToLowerCase(w.flavor_profile[i].s))
  IN  IF hasMatch THEN Outcome(5, <<MsgFlavor>>) ELSE Outcome(0, <<>>)

\* ------------------------------------------------------------------------
\* Single-pair scoring
\* ------------------------------------------------------------------------

Min2(a, b) == IF a < b THEN a ELSE b
Max2(a, b) == IF a > b THEN a ELSE b

Return(v) == [status |-> "return", value |-> v]
Throw == [status |-> "throw", value |-> "TypeError"]

\* the sum of the six deltas on the base score, before any clamp
rawScore(f, w) ==
  BASE_SCORE + applyIntensityHarmony(f, w).delta + applyFatBalance(f, w).delta
    + applyAcidGap(f, w).delta + applySpiceLogic(f, w).delta
    + applyUmamiSupport(f, w).delta + applyFlavorBridge(f, w).delta

\* the clamp without its lower bound
clampScore_noLowerBound(score) == Bind(score, LAMBDA x : Min2(100, x))

clampScore(score) == Bind(score, LAMBDA x : Max2(0, Min2(100, x)))

applyCap(score, sweetness) ==
  Bind(score, LAMBDA x :
    IF sweetness.cap # <<>> THEN Min2(x, sweetness.cap[1]) ELSE x)

resultName(w, wine) ==
  IF w.name # <<>> THEN Str(w.name)
  ELSE IF ToBoolean(Get(wine, "name")) THEN Get(wine, "name")
  ELSE Str(<<>>)

\* scoreOnePair(food, wine): reading a field of a null or undefined record
\* in normalizeFood / normalizeWine raises a TypeError
scoreOnePair(food, wine) ==
  IF Nullish(food) \/ Nullish(wine) THEN Throw
  ELSE
    Bind(normalizeFood(food), LAMBDA f :
    Bind(normalizeWine(wine), LAMBDA w :
    Bind(applySweetnessRule(f, w), LAMBDA sweetness :
      Return([name |-> resultName(w, wine),
              score |-> applyCap(clampScore(rawScore(f, w)), sweetness),
              reasoning |-> applyIntensityHarmony(f, w).reasoning
                              \o applyFatBalance(f, w).reasoning
                              \o applyAcidGap(f, w).reasoning
                              \o applySpiceLogic(f, w).reasoning
                              \o applyUmamiSupport(f, w).reasoning
                              \o applyFlavorBridge(f, w).reasoning
                              \o sweetness.reasoning]))))

\* ------------------------------------------------------------------------
\* Public API
\* ------------------------------------------------------------------------

\* the comparator handed to sort
compareResults(a, b) == b.score - a.score

\* the number of elements a stable sort puts before s[i]: those that
\* compare before it and those that compare equal and stand before it
sortRank(s, i) ==
  Cardinality({j \in 1..Len(s) :
                 \/ compareResults(s[j], s[i]) < 0
                 \/ compareResults(s[j], s[i]) = 0 /\ j < i})

\* Array.prototype.sort with a comparator: a stable sort
sortResults(s) ==
  Bind([i \in 1..Len(s) |-> sortRank(s, i)], LAMBDA rank :
    [k \in 1..Len(s) |-> s[CHOOSE i \in 1..Len(s) : rank[i] = k - 1]])

\* results.slice(0, 3)
sliceTop(s) == Bind(s, LAMBDA q : SubSeq(q, 1, Min2(3, Len(q))))

\* calculatePairing without the test of the food
calculatePairing_noFoodTest(food, wines) ==
  IF wines.t # "array" \/ Len(wines.a) = 0 THEN Return(<<>>)
  ELSE
    Bind([i \in 1..Len(wines.a) |-> scoreOnePair(food, wines.a[i])], LAMBDA results :
      IF \E i \in 1..Len(results) : results[i].status = "throw" THEN Throw
      ELSE Bind([i \in 1..Len(results) |-> results[i].value], LAMBDA values :
             Return(sliceTop(sortResults(values)))))

calculatePairing(food, wines) ==
  IF ~ToBoolean(food) \/ wines.t # "array" \/ Len(wines.a) = 0 THEN Return(<<>>)
  ELSE
    Bind([i \in 1..Len(wines.a) |-> scoreOnePair(food, wines.a[i])], LAMBDA results :
      IF \E i \in 1..Len(results) : results[i].status = "throw" THEN Throw
      ELSE Bind([i \in 1..Len(results) |-> results[i].value], LAMBDA values :
             Return(sliceTop(sortResults(values)))))

Sentinel == [name |-> Str(<<>>), score |-> 0, reasoning |-> <<>>]

scorePairing(food, wine) ==
  IF ~ToBoolean(food) \/ ~ToBoolean(wine) THEN Return(Sentinel)
  ELSE scoreOnePair(food, wine)

\* ------------------------------------------------------------------------
\* Inputs of the calls
\* ------------------------------------------------------------------------

\* the longest wines array handed to calculatePairing
MaxWines == 4

FoodFields == {"protein_intensity", "fat_level", "acidity", "sweetness", "spice_heat", "umami"}
WineFields == {"body", "tannin", "acidity", "alcohol", "sweetness", "aromatic_intensity"}

N(i) == NumV(i, 1)

\* raw attribute values of every type and sign
RawNumbers ==
  {NumV(-3, 1), NumV(-1, 2), NumV(0, 1), NumV(1, 2), NumV(1, 1), NumV(3, 2),
   NumV(3, 1), NumV(7, 2), NumV(5, 1), NumV(11, 2), NumV(6, 1), NumV(9, 1),
   NumV(0, 0), NumV(1, 0), NumV(-1, 0)}

RawStrings ==
  {Str(<<>>), Str(<<"3">>), Str(<<"4", ".", "7">>), Str(<<"-", "2">>),
   Str(<<" ", "5", " ">>), Str(<<"a", "b", "c">>), Str(<<"3", "x">>), Str(<<".">>)}

RawOthers ==
  {Undefined, Null, Bool(TRUE), Bool(FALSE), Arr(<<>>), Arr(<<N(4)>>),
   Arr(<<N(1), N(2)>>), Obj([x |-> N(1)])}

RawValues == RawNumbers \cup RawStrings \cup RawOthers

NameBeef == Str(<<"B", "e", "e", "f">>)
NameKebab == Str(<<"k", "e", "b", "a", "b">>)
NameRose == Str(<<"R", "o", "s", "e">>)
NameBrook == Str(<<"B", "r", "o", "o", "k">>)

\* the raw values the other fields of a swept record share
RawCommon == {Undefined, Null, NumV(-3, 1), N(2), Str(<<"4", ".", "7">>)}

\* records in which one field takes any raw value and the others share one
SweepFoods ==
  {Obj(("name" :> NameBeef) @@ [g \in FoodFields |-> IF g = fld THEN v ELSE u]) :
     fld \in FoodFields, v \in RawValues, u \in RawCommon}

SweepWines ==
  {Obj(("name" :> NameRose) @@ [g \in WineFields |-> IF g = fld THEN v ELSE u]) :
     fld \in WineFields, v \in RawValues, u \in RawCommon}

\* well-formed records on both sides of every rule threshold
GridFoods ==
  {Obj([name |-> nm, protein_intensity |-> N(p), fat_level |-> N(fa), acidity |-> N(ac),
        sweetness |-> N(sw), spice_heat |-> N(sp), umami |-> N(um)]) :
     nm \in {NameBeef, NameKebab}, p \in {1, 4}, fa \in {2, 3, 4},
     ac \in {0, 3}, sw \in {0, 2}, sp \in {2, 3}, um \in {2, 3}}

FlavorProfiles == {Undefined, Arr(<<N(7), Str(<<"E", "E", "F">>)>>)}

GridWines ==
  {Obj([name |-> NameRose, body |-> N(b), tannin |-> N(ta), acidity |-> N(ac),
        alcohol |-> N(al), sweetness |-> N(sw), flavor_profile |-> fp]) :
     b \in {2, 5}, ta \in {2, 3, 4}, ac \in {1, 2, 3}, al \in {3, 4},
     sw \in {0, 1, 2}, fp \in FlavorProfiles}

ExampleFood ==
  Obj([protein_intensity |-> N(5), fat_level |-> N(2), acidity |-> N(2),
       sweetness |-> N(0), spice_heat |-> N(0), umami |-> N(2)])

ExampleWine ==
  Obj([body |-> N(5), tannin |-> N(2), acidity |-> N(2), alcohol |-> N(4), sweetness |-> N(0)])

SpicyFood ==
  Obj([name |-> NameKebab, protein_intensity |-> N(3), fat_level |-> N(4), acidity |-> N(2),
       sweetness |-> N(1), spice_heat |-> N(4), umami |-> N(3)])

\* values that are no record: absent ones and primitives
Absent == {Null, Undefined, N(0), Str(<<>>), Bool(FALSE)}

\* the wines the arrays are built from; two pairs of them tie on every food
WineA == Obj([name |-> NameRose, body |-> N(3), tannin |-> N(1), acidity |-> N(3),
              alcohol |-> N(3), sweetness |-> N(2)])
WineB == Obj([name |-> NameBrook, body |-> N(3), tannin |-> N(1), acidity |-> N(4),
              alcohol |-> N(2), sweetness |-> N(2)])
WineC == Obj([name |-> N(7), body |-> N(0), tannin |-> N(5), acidity |-> N(0),
              alcohol |-> N(5), sweetness |-> N(0),
              flavor_profile |-> Arr(<<Str(<<"o", "a", "k">>), Null>>)])
WineD == Str(<<"a", "b", "c">>)

WinePool == {WineA, WineB, WineC, ExampleWine, Null}

ListFoods == {ExampleFood, SpicyFood, Obj([name |-> NameBeef])}

RECURSIVE SeqsUpTo(_, _)
SeqsUpTo(S, n) ==
  IF n = 0 THEN {<<>>}
  ELSE LET shorter == SeqsUpTo(S, n - 1)
       IN  shorter \cup {Append(q, x) : q \in {r \in shorter : Len(r) = n - 1}, x \in S}

WineArrays == {Arr(q) : q \in SeqsUpTo(WinePool, MaxWines)}

\* arrays with an undefined or a primitive element, and short ones
ExtraArrays ==
  {Arr(<<>>), Arr(<<WineA>>), Arr(<<Undefined>>), Arr(<<WineD, WineA>>),
   Arr(<<Null, WineA>>), Arr(<<WineB, Undefined, WineD>>)}

NotArrays == {Null, Undefined, Str(<<"n", "o", "t">>), Obj([length |-> N(2)])}

PairFoods == GridFoods \cup {ExampleFood, SpicyFood}
PairWines == GridWines \cup {ExampleWine, WineC, WineD}

\* ------------------------------------------------------------------------
\* The calls: the engine keeps no state between them
\* ------------------------------------------------------------------------

NoCall == [op |-> "none", args |-> <<>>]

Init ==
  /\ pc = "idle"
  /\ call = NoCall
  /\ ret = Return(Undefined)

Enter(op, args, result) ==
  /\ pc' = "returned"
  /\ call' = [op |-> op, args |-> args]
  /\ ret' = result

CallClamp ==
  /\ pc = "idle"
  /\ \E v \in RawValues : Enter("clamp", <<v>>, Return(clamp(v, 0, 5)))

CallNormalizeFood ==
  /\ pc = "idle"
  /\ \E food \in SweepFoods : Enter("normalizeFood", <<food>>, Return(normalizeFood(food)))

CallNormalizeWine ==
  /\ pc = "idle"
  /\ \E wine \in SweepWines : Enter("normalizeWine", <<wine>>, Return(normalizeWine(wine)))

CallScorePairing ==
  /\ pc = "idle"
  /\ \/ \E food \in PairFoods, wine \in PairWines :
          Enter("scorePairing", <<food, wine>>, scorePairing(food, wine))
     \/ \E food \in SweepFoods, wine \in {ExampleWine, WineA, WineC} :
          Enter("scorePairing", <<food, wine>>, scorePairing(food, wine))
     \/ \E food \in ListFoods, wine \in SweepWines :
          Enter("scorePairing", <<food, wine>>, scorePairing(food, wine))
     \/ \E food \in ListFoods \cup Absent, wine \in WinePool \cup Absent \cup {WineD} :
          Enter("scorePairing", <<food, wine>>, scorePairing(food, wine))

CallCalculatePairing ==
  /\ pc = "idle"
  /\ \/ \E food \in ListFoods, wines \in WineArrays :
          Enter("calculatePairing", <<food, wines>>, calculatePairing(food, wines))
     \/ \E food \in ListFoods \cup Absent, wines \in ExtraArrays :
          Enter("calculatePairing", <<food, wines>>, calculatePairing(food, wines))
     \/ \E food \in ListFoods \cup Absent, wines \in NotArrays :
          Enter("calculatePairing", <<food, wines>>, calculatePairing(food, wines))

Done ==
  /\ pc = "returned"
  /\ pc' = "idle"
  /\ call' = NoCall
  /\ ret' = Return(Undefined)

Next ==
  \/ CallClamp
  \/ CallNormalizeFood
  \/ CallNormalizeWine
  \/ CallScorePairing
  \/ CallCalculatePairing
  \/ Done

Spec == Init /\ [][Next]_vars

\* ------------------------------------------------------------------------
\* Properties
\* ------------------------------------------------------------------------

Returned(op) == pc = "returned" /\ call.op = op

Range(q) == {q[i] : i \in 1..Len(q)}

\* scorePairing returned for a food and a wine that are both present
PairScored ==
  /\ Returned("scorePairing")
  /\ ToBoolean(call.args[1])
  /\ ToBoolean(call.args[2])

\* calculatePairing returned for a present food and a non-empty array
ListCall ==
  /\ Returned("calculatePairing")
  /\ ToBoolean(call.args[1])
  /\ call.args[2].t = "array"
  /\ Len(call.args[2].a) > 0

\* C1: for a food and a wine that are both present the score of scorePairing
\* is an integer of 0..100, and so is every score of a list calculatePairing
\* returns.
C1_ScoreInRange ==
  /\ PairScored => ret.status = "return" /\ ret.value.score \in 0..100
  /\ (Returned("calculatePairing") /\ ret.status = "return") =>
       \A i \in 1..Len(ret.value) : ret.value[i].score \in 0..100

\* the deltas sum below 0 and the score returned is 0
C1_Witness ==
  /\ PairScored
  /\ rawScore(normalizeFood(call.args[1]), normalizeWine(call.args[2])) < 0
  /\ ret.value.score = 0

\* C2: when the normalized wine sweetness is below the food sweetness the
\* score is at most 40 and the sweetness message is the last reasoning
\* entry; otherwise the message is absent and the score is the clamped
\* pre-cap score; the cap never raises a score.
C2_SweetnessCap ==
  PairScored =>
    LET f == normalizeFood(call.args[1])
        w == normalizeWine(call.args[2])
        r == ret.value
        pre == Max2(0, Min2(100, rawScore(f, w)))
    IN  /\ r.score <= pre
        /\ w.sweetness < f.sweetness =>
             /\ r.score <= 40
             /\ r.reasoning # <<>>
             /\ r.reasoning[Len(r.reasoning)] = MsgSweetness
        /\ w.sweetness >= f.sweetness =>
             /\ MsgSweetness \notin Range(r.reasoning)
             /\ r.score = pre

\* the wine is less sweet and the pre-cap score was already below 40
C2_Witness ==
  /\ PairScored
  /\ LET f == normalizeFood(call.args[1])
         w == normalizeWine(call.args[2])
     IN  /\ w.sweetness < f.sweetness
         /\ Max2(0, Min2(100, rawScore(f, w))) < 40
         /\ ret.value.score < 40
         /\ ret.value.reasoning[Len(ret.value.reasoning)] = MsgSweetness

\* the result list the ranking of the per-wine results prescribes: chosen
\* positions idx of the input, best first, ties in input order, nothing
\* better left out
IsTopRanked(per, out) ==
  LET n == Len(per)
      m == Min2(3, n)
  IN  /\ Len(out) = m
      /\ \E idx \in [1..m -> 1..n] :
           /\ \A k \in 1..m : out[k] = per[idx[k]]
           /\ \A k \in 1..m : \A l \in 1..m :
                k < l => \/ per[idx[k]].score > per[idx[l]].score
                         \/ /\ per[idx[k]].score = per[idx[l]].score
                            /\ idx[k] < idx[l]
           /\ \A j \in (1..n) \ {idx[k] : k \in 1..m} : \A k \in 1..m :
                \/ per[j].score < per[idx[k]].score
                \/ /\ per[j].score = per[idx[k]].score
                   /\ j > idx[k]

\* C3: for a present food and a non-empty wines array of length n,
\* calculatePairing returns exactly min(3, n) results, the first min(3, n) of
\* the results scorePairing(food, wine_i) ordered by score descending with
\* ties in input order.
C3_TopThreeStable ==
  ListCall =>
    LET wines == call.args[2].a
        per == [i \in 1..Len(wines) |-> scorePairing(call.args[1], wines[i]).value]
    IN  /\ ret.status = "return"
        /\ IsTopRanked(per, ret.value)

\* C3 where every element of the array is a record or a primitive: the
\* ranking holds as soon as no element is null or undefined
C3_RankedWhenNoElementAbsent ==
  (ListCall /\ \A i \in 1..Len(call.args[2].a) : ~Nullish(call.args[2].a[i])) =>
    LET wines == call.args[2].a
        per == [i \in 1..Len(wines) |-> scorePairing(call.args[1], wines[i]).value]
    IN  /\ ret.status = "return"
        /\ IsTopRanked(per, ret.value)

\* C4: calculatePairing returns the empty sequence when the food is absent,
\* when wines is no array or when it is empty; scorePairing returns the
\* sentinel [name "", score 0, reasoning <<>>] when the food or the wine is
\* absent; neither raises an error.
C4_Sentinels ==
  /\ ( /\ Returned("calculatePairing")
       /\ \/ ~ToBoolean(call.args[1])
          \/ call.args[2].t # "array"
          \/ Len(call.args[2].a) = 0 )
       => ret = [status |-> "return", value |-> <<>>]
  /\ ( /\ Returned("scorePairing")
       /\ \/ ~ToBoolean(call.args[1])
          \/ ~ToBoolean(call.args[2]) )
       => ret = [status |-> "return",
                 value |-> [name |-> Str(<<>>), score |-> 0, reasoning |-> <<>>]]

\* an absent food with an array that holds a null element
C4_Witness ==
  /\ Returned("calculatePairing")
  /\ call.args[1] = Null
  /\ call.args[2].t = "array"
  /\ Null \in Range(call.args[2].a)
  /\ ret.value = <<>>

\* C5: for a present food and a non-empty wines array, whatever its
\* elements (null and undefined ones included), calculatePairing returns a
\* result list and raises no error.
C5_NeverRaises ==
  ListCall => ret.status = "return"

\* what the normalization of a raw value v into min..max yields: an integer
\* of the range; for a number in range its floor, below the range the
\* minimum, above it the maximum
NormalLaw(v, r, min, max) ==
  /\ r \in min..max
  /\ (v.t = "number" /\ ~IsNaN(v.n)) =>
       LET x == v.n
       IN  IF x.den = 0 THEN r = (IF x.num < 0 THEN min ELSE max)
           ELSE /\ x.num < min * x.den => r = min
                /\ x.num > max * x.den => r = max
                /\ (min * x.den <= x.num /\ x.num <= max * x.den) =>
                     /\ r * x.den <= x.num
                     /\ x.num < (r + 1) * x.den

FieldMin(g) == IF g \in {"alcohol", "aromatic_intensity"} THEN 1 ELSE 0

\* C6: after normalization, whatever the raw value, every food field and
\* wine body, tannin, acidity, sweetness is an integer of 0..5 and wine
\* alcohol and aromatic_intensity an integer of 1..5; a number in range
\* normalizes to its floor, one below the range to the minimum and one
\* above it to the maximum.
C6_NormalizedRanges ==
  /\ Returned("clamp") => NormalLaw(call.args[1], ret.value, 0, 5)
  /\ Returned("normalizeFood") =>
       \A g \in FoodFields : NormalLaw(Get(call.args[1], g), ret.value[g], 0, 5)
  /\ Returned("normalizeWine") =>
       \A g \in WineFields : NormalLaw(Get(call.args[1], g), ret.value[g], FieldMin(g), 5)

\* a wine with a fraction below the alcohol range and a negative body
C6_Witness ==
  /\ Returned("normalizeWine")
  /\ Get(call.args[1], "alcohol") = NumV(1, 2)
  /\ Get(call.args[1], "body") = NumV(-3, 1)
  /\ ret.value.alcohol = 1
  /\ ret.value.body = 0

\* C7: in normalizeWine a raw alcohol that is missing (not present, or
\* null) or that does not parse as a number normalizes to 3, and such a raw
\* aromatic_intensity to 2.
C7_DefaultsWhenMissing ==
  Returned("normalizeWine") =>
    LET alc == Get(call.args[1], "alcohol")
        arom == Get(call.args[1], "aromatic_intensity")
    IN  /\ (Nullish(alc) \/ IsNaN(ToNumber(alc))) => ret.value.alcohol = 3
        /\ (Nullish(arom) \/ IsNaN(ToNumber(arom))) => ret.value.aromatic_intensity = 2

D1(f, w) ==
  LET diff == IF f.protein_intensity >= w.body THEN f.protein_intensity - w.body
              ELSE w.body - f.protein_intensity
  IN  IF diff <= 1 THEN 15 ELSE IF diff >= 3 THEN -15 ELSE 0

D2(f, w) ==
  IF f.fat_level >= 3 /\ (w.acidity >= 3 \/ w.tannin >= 3) THEN 10
  ELSE IF f.fat_level >= 4 /\ w.acidity <= 1 THEN -10
  ELSE 0

D3(f, w) == IF w.acidity + 1 < f.acidity THEN -20 ELSE 0

D4(f, w) ==
  (IF f.spice_heat >= 3 /\ w.alcohol >= 4 THEN -15 ELSE 0)
    + (IF f.spice_heat >= 3 /\ w.tannin >= 4 THEN -10 ELSE 0)
    + (IF f.spice_heat >= 3 /\ w.sweetness >= 1 THEN 8 ELSE 0)

D5(f, w) == IF f.umami >= 3 /\ w.acidity >= 3 THEN 5 ELSE 0

NameHasFlavor(f, w) ==
  \E e \in Range(w.flavor_profile) :
    e.t = "string" /\ Includes(ToLowerCase(f.name), ToLowerCase(e.s))

D6(f, w) == IF NameHasFlavor(f, w) THEN 5 ELSE 0

CapS(f, w, x) == IF w.sweetness < f.sweetness THEN (IF x < 40 THEN x ELSE 40) ELSE x

Clamp0To100(x) == IF x < 0 THEN 0 ELSE IF x > 100 THEN 100 ELSE x

\* C9: the score of scorePairing is capS(clamp_0_100(50 + d1 + .. + d6)) on
\* the normalized food and wine; the example food and wine score 65.
C9_ScoreFormula ==
  PairScored =>
    LET f == normalizeFood(call.args[1])
        w == normalizeWine(call.args[2])
    IN  /\ ret.value.score =
             CapS(f, w, Clamp0To100(50 + D1(f, w) + D2(f, w) + D3(f, w)
                                       + D4(f, w) + D5(f, w) + D6(f, w)))
        /\ call.args = <<ExampleFood, ExampleWine>> => ret.value.score = 65

\* the acid gap, all three spice checks and the flavor bridge apply at once
C9_Witness ==
  /\ PairScored
  /\ LET f == normalizeFood(call.args[1])
         w == normalizeWine(call.args[2])
     IN  /\ D3(f, w) = -20
         /\ D4(f, w) = -17
         /\ D6(f, w) = 5
         /\ ret.value.score = 50 + D1(f, w) + D2(f, w) - 32 + D5(f, w)

\* the fixed list of messages, each with the condition of its rule
MessageTable(f, w) ==
  LET diff == IF f.protein_intensity >= w.body THEN f.protein_intensity - w.body
              ELSE w.body - f.protein_intensity
      rich == f.fat_level >= 3 /\ (w.acidity >= 3 \/ w.tannin >= 3)
  IN  << <<MsgAligned, diff <= 1>>,
         <<MsgMisaligned, diff >= 3>>,
         <<MsgStructure, rich>>,
         <<MsgLacksAcidity, ~rich /\ f.fat_level >= 4 /\ w.acidity <= 1>>,
         <<MsgAcidGap, w.acidity + 1 < f.acidity>>,
         <<MsgAlcohol, f.spice_heat >= 3 /\ w.alcohol >= 4>>,
         <<MsgTannin, f.spice_heat >= 3 /\ w.tannin >= 4>>,
         <<MsgSoftens, f.spice_heat >= 3 /\ w.sweetness >= 1>>,
         <<MsgUmami, f.umami >= 3 /\ w.acidity >= 3>>,
         <<MsgFlavor, NameHasFlavor(f, w)>>,
         <<MsgSweetness, w.sweetness < f.sweetness>> >>

Holds(e) == e[2]

ExpectedReasoning(f, w) ==
  LET hit == SelectSeq(MessageTable(f, w), Holds)
  IN  [i \in 1..Len(hit) |-> hit[i][1]]

\* C10: the reasoning of scorePairing is the fixed list of messages cut
\* down to those whose rule condition holds, in the order of the list and
\* without duplicates; with spice_heat >= 3, alcohol >= 4, tannin >= 4 and
\* wine sweetness >= 1 the three spice messages appear in that order and
\* the spice rule contributes -17.
C10_ReasoningOrder ==
  PairScored =>
    LET f == normalizeFood(call.args[1])
        w == normalizeWine(call.args[2])
        r == ret.value.reasoning
    IN  /\ r = ExpectedReasoning(f, w)
        /\ \A i \in 1..Len(r) : \A j \in 1..Len(r) : i # j => r[i] # r[j]
        /\ (f.spice_heat >= 3 /\ w.alcohol >= 4 /\ w.tannin >= 4 /\ w.sweetness >= 1) =>
             /\ \E i \in 1..(Len(r) - 2) :
                  r[i] = MsgAlcohol /\ r[i + 1] = MsgTannin /\ r[i + 2] = MsgSoftens
             /\ applySpiceLogic(f, w).delta = -17

\* all three spice messages, followed by the sweetness message at the end
C10_Witness ==
  /\ PairScored
  /\ LET r == ret.value.reasoning
     IN  /\ {MsgAlcohol, MsgTannin, MsgSoftens} \subseteq Range(r)
         /\ Len(r) >= 5
         /\ r[Len(r)] = MsgSweetness

Positive(d) == IF d > 0 THEN d ELSE 0

\* C11: the sum 50 + d1 + .. + d6 scoreOnePair computes before the clamp
\* lies in -10..93: the fat-balance penalty and the spice-tannin penalty
\* never apply together and the bonuses total at most 43; so the upper
\* clamp changes no score and no returned score exceeds 93.
C11_PreClampBounds ==
  /\ PairScored =>
       LET f == normalizeFood(call.args[1])
           w == normalizeWine(call.args[2])
           raw == rawScore(f, w)
       IN  /\ raw >= -10
           /\ raw <= 93
           /\ ~(applyFatBalance(f, w).delta < 0 /\ f.spice_heat >= 3 /\ w.tannin >= 4)
           /\ ~({MsgLacksAcidity, MsgTannin} \subseteq Range(ret.value.reasoning))
           /\ Positive(applyIntensityHarmony(f, w).delta) + Positive(applyFatBalance(f, w).delta)
                + (IF f.spice_heat >= 3 /\ w.sweetness >= 1 THEN 8 ELSE 0)
                + Positive(applyUmamiSupport(f, w).delta)
                + Positive(applyFlavorBridge(f, w).delta) <= 43
           /\ (IF raw < 100 THEN raw ELSE 100) = raw
           /\ ret.value.score <= 93
  /\ (Returned("calculatePairing") /\ ret.status = "return") =>
       \A i \in 1..Len(ret.value) : ret.value[i].score <= 93

\* the sum is -10 and the lower clamp turns it into the score 0
C11_Witness ==
  /\ PairScored
  /\ rawScore(normalizeFood(call.args[1]), normalizeWine(call.args[2])) = -10
  /\ ret.value.score = 0

\* every bonus applies: the sum and the score are 93
C11_TopReached ==
  /\ PairScored
  /\ rawScore(normalizeFood(call.args[1]), normalizeWine(call.args[2])) = 93
  /\ ret.value.score = 93

====
